---------------------------- MODULE Spec2Model ----------------------------
(***************************************************************************)
(* HTTP Signatures: the one-shot request signer (signRequest), the         *)
(* incremental signer (RequestSigner), the Authorization header formatter  *)
(* (FormatAuthz) and the HMAC verifier (verifyHMAC) of lib/signer.js and   *)
(* lib/verify.js.                                                          *)
(*                                                                         *)
(* A JavaScript string is a sequence of one-character strings, so that     *)
(* case folding, joining, splitting and counting separators are computed   *)
(* character by character.  Other JavaScript values are tagged records.    *)
(***************************************************************************)
EXTENDS Integers, Sequences, FiniteSets, TLC

(***************************************************************************)
(* Bounds of the model.                                                    *)
(***************************************************************************)
\* longest options.headers list given to signRequest
MaxHeaders == 2
\* largest number of fields of a params object given to FormatAuthz alone
MaxParams == 3
\* largest number of header writes on one incremental signer
MaxWrites == 2
\* largest number of sign(cb) calls on one incremental signer
MaxSigns == 2
\* largest number of times the user's sign function invokes its completion
MaxCompletions == 2

(***************************************************************************)
(* JavaScript values.                                                      *)
(***************************************************************************)
Undefined == [type |-> "undefined"]
Null == [type |-> "null"]
Str(s) == [type |-> "string", s |-> s]
Num(n) == [type |-> "number", n |-> n]
Bool(b) == [type |-> "boolean", b |-> b]

IsString(v) == v.type = "string"
IsNumber(v) == v.type = "number"

\* JavaScript truthiness, as `if (v)`, `!v` and `v || d` use it
Truthy(v) ==
  CASE v.type = "undefined" -> FALSE
    [] v.type = "null" -> FALSE
    [] v.type = "string" -> v.s # <<>>
    [] v.type = "number" -> v.n # 0
    [] v.type = "boolean" -> v.b
    [] OTHER -> TRUE

(***************************************************************************)
(* Characters and strings.                                                 *)
(***************************************************************************)
NL == "\n"
SP == " "

UpperToLower ==
  [c \in {"A", "C", "D", "E", "G", "H", "I", "L", "M", "N", "P", "Q", "R", "S", "T", "U", "X"} |->
     CASE c = "A" -> "a" [] c = "C" -> "c" [] c = "D" -> "d" [] c = "E" -> "e"
       [] c = "G" -> "g" [] c = "H" -> "h" [] c = "I" -> "i" [] c = "L" -> "l"
       [] c = "M" -> "m" [] c = "N" -> "n" [] c = "P" -> "p" [] c = "Q" -> "q"
       [] c = "R" -> "r" [] c = "S" -> "s" [] c = "T" -> "t" [] c = "U" -> "u"
       [] c = "X" -> "x"]

\* String.prototype.toLowerCase
toLowerCase(s) ==
  [k \in 1..Len(s) |-> IF s[k] \in DOMAIN UpperToLower THEN UpperToLower[s[k]] ELSE s[k]]

UpperOfLower(c) ==
  IF \E u \in DOMAIN UpperToLower : UpperToLower[u] = c
  THEN CHOOSE u \in DOMAIN UpperToLower : UpperToLower[u] = c
  ELSE c

\* String.prototype.toUpperCase
toUpperCase(s) == [k \in 1..Len(s) |-> UpperOfLower(s[k])]

\* Array.prototype.join: the strings of ss with sep between neighbours
RECURSIVE join(_, _)
join(ss, sep) ==
  IF Len(ss) = 0 THEN <<>>
  ELSE IF Len(ss) = 1 THEN ss[1]
  ELSE ss[1] \o sep \o join(Tail(ss), sep)

\* String.prototype.split on a one-character separator
RECURSIVE split(_, _)
split(s, sep) ==
  IF \E k \in 1..Len(s) : s[k] = sep
  THEN LET k == CHOOSE j \in 1..Len(s) : s[j] = sep /\ \A m \in 1..(j - 1) : s[m] # sep
       IN <<SubSeq(s, 1, k - 1)>> \o split(SubSeq(s, k + 1, Len(s)), sep)
  ELSE <<s>>

Digit(d) ==
  CASE d = 0 -> "0" [] d = 1 -> "1" [] d = 2 -> "2" [] d = 3 -> "3" [] d = 4 -> "4"
    [] d = 5 -> "5" [] d = 6 -> "6" [] d = 7 -> "7" [] d = 8 -> "8" [] d = 9 -> "9"

\* the decimal rendering of an integer, as `${n}` and sprintf("%d", n) give it
RECURSIVE Decimal(_)
Decimal(n) ==
  IF n < 0 THEN <<"-">> \o Decimal(0 - n)
  ELSE IF n < 10 THEN <<Digit(n)>>
  ELSE Decimal(n \div 10) \o <<Digit(n % 10)>>

\* the number of occurrences of character c in s
Count(s, c) == Cardinality({k \in 1..Len(s) : s[k] = c})

(***************************************************************************)
(* FormatAuthz (signer.js).  A params object is the sequence of its        *)
(* properties [name, value] in insertion order.                            *)
(***************************************************************************)
AUTHZ_PARAMS == <<"keyId", "algorithm", "created", "expires", "opaque", "headers", "signature">>

ParamName ==
  [p \in {"keyId", "algorithm", "created", "expires", "opaque", "headers", "signature"} |->
     CASE p = "keyId" -> <<"k", "e", "y", "I", "d">>
       [] p = "algorithm" -> <<"a", "l", "g", "o", "r", "i", "t", "h", "m">>
       [] p = "created" -> <<"c", "r", "e", "a", "t", "e", "d">>
       [] p = "expires" -> <<"e", "x", "p", "i", "r", "e", "s">>
       [] p = "opaque" -> <<"o", "p", "a", "q", "u", "e">>
       [] p = "headers" -> <<"h", "e", "a", "d", "e", "r", "s">>
       [] p = "signature" -> <<"s", "i", "g", "n", "a", "t", "u", "r", "e">>]

\* params[param]: the value of the property, undefined when the object has none
GetParam(params, param) ==
  IF \E k \in 1..Len(params) : params[k].name = param
  THEN params[CHOOSE k \in 1..Len(params) : params[k].name = param].value
  ELSE Undefined

\* params[param] = value: an existing property keeps its place, a new one is appended
SetParam(params, param, value) ==
  IF \E k \in 1..Len(params) : params[k].name = param
  THEN [k \in 1..Len(params) |->
          IF params[k].name = param THEN [name |-> param, value |-> value] ELSE params[k]]
  ELSE Append(params, [name |-> param, value |-> value])

\* sprintf("%s=%d", param, value)
FormatNumberParam(param, value) == ParamName[param] \o <<"=">> \o Decimal(value.n)

\* sprintf('%s="%s"', param, value)
FormatStringParam(param, value) == ParamName[param] \o <<"=", "\"">> \o value.s \o <<"\"">>

AssertionError == "AssertionError"

\* The loop of FormatAuthz from index i on, with the text so far and the current
\* prefix; the result is [err, authz]: err is "" or the error thrown.
RECURSIVE FormatAuthzFrom(_, _, _, _)
FormatAuthzFrom(i, authz, prefix, params) ==
  IF i > Len(AUTHZ_PARAMS) THEN [err |-> "", authz |-> authz]
  ELSE LET param == AUTHZ_PARAMS[i]
           value == GetParam(params, param)
       IN IF value = Undefined THEN FormatAuthzFrom(i + 1, authz, prefix, params)
          ELSE IF IsNumber(value)
               THEN FormatAuthzFrom(i + 1, authz \o prefix \o FormatNumberParam(param, value),
                                    <<",">>, params)
          ELSE IF IsString(value)
               THEN FormatAuthzFrom(i + 1, authz \o prefix \o FormatStringParam(param, value),
                                    <<",">>, params)
          ELSE [err |-> AssertionError, authz |-> <<>>]

\* the fields in the order of the object's own properties
RECURSIVE FormatAuthzOwnOrder(_, _, _, _)
FormatAuthzOwnOrder(i, authz, prefix, params) ==
  IF i > Len(params) THEN [err |-> "", authz |-> authz]
  ELSE LET param == params[i].name
           value == params[i].value
       IN IF value = Undefined THEN FormatAuthzOwnOrder(i + 1, authz, prefix, params)
          ELSE IF IsNumber(value)
               THEN FormatAuthzOwnOrder(i + 1, authz \o prefix \o FormatNumberParam(param, value),
                                        <<",">>, params)
          ELSE IF IsString(value)
               THEN FormatAuthzOwnOrder(i + 1, authz \o prefix \o FormatStringParam(param, value),
                                        <<",">>, params)
          ELSE [err |-> AssertionError, authz |-> <<>>]

FormatAuthz_insertionOrder(prefix, params) == FormatAuthzOwnOrder(1, <<>>, prefix, params)

\* lines 42-62
FormatAuthz(prefix, params) == FormatAuthzFrom(1, <<>>, prefix, params)


(***************************************************************************)
(* String constants.                                                       *)
(***************************************************************************)
S_date == <<"d", "a", "t", "e">>
S_Date == <<"D", "a", "t", "e">>
S_request_line == <<"r", "e", "q", "u", "e", "s", "t", "-", "l", "i", "n", "e">>
S_Request_Line == <<"R", "e", "q", "u", "e", "s", "t", "-", "L", "i", "n", "e">>
S_request_target == <<"(", "r", "e", "q", "u", "e", "s", "t", "-", "t", "a", "r", "g", "e", "t", ")">>
S_keyid == <<"(", "k", "e", "y", "i", "d", ")">>
S_algorithm == <<"(", "a", "l", "g", "o", "r", "i", "t", "h", "m", ")">>
S_opaque == <<"(", "o", "p", "a", "q", "u", "e", ")">>
S_created == <<"(", "c", "r", "e", "a", "t", "e", "d", ")">>
S_expires == <<"(", "e", "x", "p", "i", "r", "e", "s", ")">>
S_x_foo == <<"x", "-", "f", "o", "o">>
S_hmac == <<"h", "m", "a", "c">>
S_rsa == <<"r", "s", "a">>
S_dsa == <<"d", "s", "a">>
S_ecdsa == <<"e", "c", "d", "s", "a">>
S_ed25519 == <<"e", "d", "2", "5", "5", "1", "9">>
S_sha1 == <<"s", "h", "a", "1">>
S_sha256 == <<"s", "h", "a", "2", "5", "6">>
S_sha512 == <<"s", "h", "a", "5", "1", "2">>
S_hs2019 == <<"h", "s", "2", "0", "1", "9">>
S_hmac_sha256 == <<"h", "m", "a", "c", "-", "s", "h", "a", "2", "5", "6">>
S_HMAC_SHA1 == <<"H", "M", "A", "C", "-", "S", "H", "A", "1">>
S_rsa_sha256 == <<"r", "s", "a", "-", "s", "h", "a", "2", "5", "6">>
S_RSA_SHA512 == <<"R", "S", "A", "-", "S", "H", "A", "5", "1", "2">>
S_rsa_md5 == <<"r", "s", "a", "-", "m", "d", "5">>
S_Signature_ == <<"S", "i", "g", "n", "a", "t", "u", "r", "e", " ">>
S_Authorization == <<"A", "u", "t", "h", "o", "r", "i", "z", "a", "t", "i", "o", "n">>
S_Signature == <<"S", "i", "g", "n", "a", "t", "u", "r", "e">>
S_x_auths == <<"x", "-", "a", "u", "t", "h", "s">>
S_signature == <<"s", "i", "g", "n", "a", "t", "u", "r", "e">>
S_HTTP == <<"H", "T", "T", "P", "/">>
S_1_1 == <<"1", ".", "1">>
S_1_0 == <<"1", ".", "0">>
S_GET == <<"G", "E", "T">>
S_path == <<"/", "p">>
S_colon == <<":", " ">>
S_pem == <<"p", "e", "m">>

(***************************************************************************)
(* Errors.                                                                 *)
(***************************************************************************)
TypeError == "TypeError"
ReferenceError == "ReferenceError"
InvalidAlgorithmError == "InvalidAlgorithmError"
MissingHeaderError == "MissingHeaderError"
StrictParsingError == "StrictParsingError"
KeyParseError == "KeyParseError"
AtLeastOneHeaderError == "Error: At least one header must be signed"

(***************************************************************************)
(* The Algorithm Registry (lib/utils.js).                                  *)
(***************************************************************************)
HASH_ALGOS == {S_sha1, S_sha256, S_sha512}
PK_ALGOS == {S_rsa, S_dsa, S_ecdsa, S_ed25519}
\* utils.HEADER.SIG: the scheme's bare-signature header name
HEADER_SIG == S_signature

\* validateAlgorithm(algorithm, publicKeyType): [err, alg]; alg is the pair
\* <<keyType, hashAlgorithm>> of JavaScript values, the sentinel hs2019 unexpanded.
validateAlgorithm(algorithm, publicKeyType) ==
  LET alg == split(toLowerCase(algorithm), "-")
  IN IF alg = <<S_hs2019>> THEN [err |-> "", alg |-> <<Str(S_hs2019), Undefined>>]
     ELSE IF Len(alg) # 2 THEN [err |-> InvalidAlgorithmError, alg |-> <<>>]
     ELSE IF alg[1] # S_hmac /\ alg[1] \notin PK_ALGOS
          THEN [err |-> InvalidAlgorithmError, alg |-> <<>>]
     ELSE IF alg[2] \notin HASH_ALGOS THEN [err |-> InvalidAlgorithmError, alg |-> <<>>]
     ELSE IF publicKeyType # Undefined /\ Str(alg[1]) # publicKeyType
          THEN [err |-> InvalidAlgorithmError, alg |-> <<>>]
     ELSE [err |-> "", alg |-> <<Str(alg[1]), Str(alg[2])>>]

(***************************************************************************)
(* The external collaborators: node's crypto, sshpk and jsprim.  A digest  *)
(* or a signature is a free term over its inputs (no two inputs collide),  *)
(* held as one string; its base64 text is the two tokens <<"b64:", d>>.    *)
(***************************************************************************)
\* crypto.createHmac(hashAlg, key).update(data).digest()
Hmac(hashAlg, key, data) == ToString(<<"hmac", hashAlg, key, data>>)

\* digest("base64"), and sshpk's Signature.toString()
Base64Encode(bytes) == <<"b64:", bytes>>

\* Buffer.from(text, "base64")
Base64Decode(text) ==
  IF Len(text) = 2 /\ text[1] = "b64:" THEN text[2] ELSE ToString(<<"raw", text>>)

\* sshpk.parsePrivateKey(text, "auto", ...): a PEM text is "pem-<type>-<default hash>"
parsePrivateKey(key) ==
  LET parts == split(key.s, "-")
  IN IF Len(parts) = 3 /\ parts[1] = S_pem
     THEN [err |-> "",
           key |-> [type |-> "PrivateKey", keytype |-> parts[2], defaultHash |-> parts[3]]]
     ELSE [err |-> KeyParseError, key |-> Undefined]

\* sshpk.PrivateKey.isPrivateKey(key, [1, 2])
isPrivateKey(key) == key.type = "PrivateKey"

\* key.createSign(hash).update(data).sign(): the signature object
PrivateKeySign(key, hashAlgorithm, data) ==
  [hashAlgorithm |-> hashAlgorithm,
   text |-> Base64Encode(ToString(<<"sig", key.keytype, hashAlgorithm, data>>))]

\* jsprim.rfc1123(new Date()) at clock reading ms: second resolution
rfc1123(ms) == <<"t", "=">> \o Decimal(ms \div 1000)

\* `${v}`: a value inside a template literal
TemplateString(v) ==
  CASE v.type = "string" -> v.s
    [] v.type = "number" -> Decimal(v.n)
    [] v.type = "undefined" -> <<"u", "n", "d", "e", "f", "i", "n", "e", "d">>
    [] OTHER -> <<"?">>

PEM_rsa == Str(S_pem \o <<"-">> \o S_rsa \o <<"-">> \o S_sha256)
PEM_dsa == Str(S_pem \o <<"-">> \o S_dsa \o <<"-">> \o S_sha1)
PEM_ed25519 == Str(S_pem \o <<"-">> \o S_ed25519 \o <<"-">> \o S_sha512)
Secret_s == Str(<<"s", "3">>)
Secret_w == Str(<<"w">>)
KeyObject_rsa == [type |-> "PrivateKey", keytype |-> S_rsa, defaultHash |-> S_sha256]


(***************************************************************************)
(* State.                                                                  *)
(***************************************************************************)
VARIABLES
  request,  \* the http.ClientRequest given to signRequest: method, path, headers, setHeader calls
  options,  \* the options object given to signRequest (signRequest writes to it)
  clock,    \* the last reading of the system clock, in milliseconds
  sr,       \* the activation of signRequest: its position, locals and outcome
  vr,       \* the outcome of verifyHMAC on the signature signRequest emitted
  fa,       \* a call of FormatAuthz on its own: prefix, params, result
  rs,       \* the RequestSigner object: rs_alg, rs_keyId, rs_key, rs_headers, rs_lines, rs_signer
  io        \* the world around the RequestSigner: calls in flight, what cb received, what was thrown

vars == <<request, options, clock, sr, vr, fa, rs, io>>

\* the clock readings of the model; a later reading is never smaller
ClockMs == {59999, 60000}

NoResult == [kind |-> "none"]
Return(v) == [kind |-> "return", value |-> v]
Throw(e) == [kind |-> "throw", error |-> e]

(***************************************************************************)
(* The request object (node's http.ClientRequest).                         *)
(***************************************************************************)
\* request.getHeader(name): header names are case-insensitive
getHeader(req, name) ==
  IF toLowerCase(name) \in DOMAIN req.headers THEN req.headers[toLowerCase(name)] ELSE Undefined

\* request.setHeader(name, value)
setHeader(req, name, value) ==
  [req EXCEPT !.headers = (toLowerCase(name) :> value) @@ req.headers,
              !.setCalls = Append(req.setCalls, [name |-> name, value |-> value])]

(***************************************************************************)
(* The inputs of signRequest in the model.                                 *)
(***************************************************************************)
HeaderNames ==
  {S_Date, S_request_line, S_Request_Line, S_request_target, S_keyid,
   S_algorithm, S_opaque, S_created, S_expires, S_x_foo}

\* the names of the lists under which every algorithm, key and header name option varies
AlgorithmHeaderNames == {S_Date, S_keyid, S_algorithm}

ListsOver(names) == UNION {[1..n -> names] : n \in 0..MaxHeaders}

Array(a) == [type |-> "array", a |-> a]

Lists(h) == IF h = Undefined THEN <<S_date>> ELSE h.a

Has(h, names) == \E k \in 1..Len(Lists(h)) : toLowerCase(Lists(h)[k]) \in names

\* algorithm and key as given in the options
AlgorithmKeysBasic ==
  {<<Undefined, PEM_rsa>>, <<Str(S_hmac_sha256), Secret_s>>}

AlgorithmKeysAll ==
  AlgorithmKeysBasic \cup
  {<<Undefined, Secret_s>>, <<Undefined, Undefined>>, <<Undefined, PEM_dsa>>,
   <<Undefined, KeyObject_rsa>>, <<Str(S_HMAC_SHA1), Secret_w>>,
   <<Str(S_hmac_sha256), Undefined>>, <<Str(S_rsa_sha256), PEM_rsa>>,
   <<Str(S_RSA_SHA512), PEM_rsa>>, <<Str(S_rsa_sha256), PEM_dsa>>,
   <<Str(S_rsa_md5), PEM_rsa>>}

\* strict and httpVersion as given together
StrictVersions == {<<Undefined, Undefined>>, <<Bool(FALSE), Str(S_1_0)>>, <<Bool(TRUE), Undefined>>}

\* Options the code reads only for a name of the list vary only with that name listed.
ListInputs(h) ==
  [headers : {h},
   ak : AlgorithmKeysBasic,
   hideAlgorithm : {Undefined},
   authorizationHeaderName : {Undefined},
   opaque : IF Has(h, {S_opaque}) THEN {Undefined, Str(<<>>), Str(<<"o">>)} ELSE {Undefined},
   sv : IF Has(h, {S_request_line}) THEN StrictVersions ELSE {<<Undefined, Undefined>>},
   expiresIn : IF Has(h, {S_expires}) THEN {Undefined, Num(0), Num(5)} ELSE {Undefined},
   xfoo : IF Has(h, {S_x_foo}) THEN {Undefined, Str(<<>>), Str(<<"0">>), Num(0)}
          ELSE {Undefined},
   date : IF Has(h, {S_date}) THEN {Undefined, Str(<<"D">>)} ELSE {Undefined}]

AlgorithmInputs(h) ==
  [headers : {h},
   ak : AlgorithmKeysAll,
   hideAlgorithm : {Undefined, Bool(TRUE)},
   authorizationHeaderName : {Undefined, Str(S_Signature), Str(S_x_auths)},
   opaque : {Undefined, Str(<<"o">>)},
   sv : {<<Undefined, Undefined>>},
   expiresIn : {Undefined},
   xfoo : {Undefined},
   date : {Str(<<"D">>)}]

SignInputs ==
  UNION {ListInputs(h) : h \in {Undefined} \cup {Array(l) : l \in ListsOver(HeaderNames)}}
  \cup
  UNION {AlgorithmInputs(h) :
           h \in {Undefined} \cup {Array(l) : l \in ListsOver(AlgorithmHeaderNames)}}

KeyId == <<"k", "1">>

IdleOptions == [type |-> "none"]
IdleSr ==
  [pc |-> "idle", headers |-> <<>>, alg |-> <<Undefined, Undefined>>, key |-> Undefined,
   params |-> <<>>, i |-> 0, stringToSign |-> <<>>, signature |-> <<>>,
   result |-> NoResult, names |-> <<>>, lines |-> <<>>, given |-> IdleOptions]
IdleVr == [called |-> FALSE, secret |-> Undefined, result |-> NoResult]
IdleFa ==
  [prefix |-> <<>>, params |-> <<>>, out |-> NoResult, ref |-> NoResult, reinserted |-> FALSE]
NoSigner == [kind |-> "none"]
IdleRs ==
  [kind |-> "none", rs_alg |-> <<Undefined, Undefined>>, rs_keyId |-> Undefined,
   rs_key |-> Undefined, rs_signer |-> NoSigner, rs_headers |-> <<>>, rs_lines |-> <<>>]
NoCall == [op |-> "none"]
IdleIo ==
  [pc |-> "idle", given |-> IdleOptions, threw |-> "", writes |-> <<>>, lastWrite |-> NoCall,
   nSigns |-> 0, lastSign |-> NoCall, signFunc |-> NoCall, nCompletions |-> 0,
   lastCompletion |-> NoCall, cbCount |-> 0]
IdleRequest == [method |-> <<>>, path |-> <<>>, headers |-> <<>>, setCalls |-> <<>>]

\* the options object of input inp
OptionsOf(inp) ==
  [algorithm |-> inp.ak[1], key |-> inp.ak[2], keyId |-> Str(KeyId),
   headers |-> inp.headers, httpVersion |-> inp.sv[2],
   strict |-> inp.sv[1], expiresIn |-> inp.expiresIn,
   hideAlgorithm |-> inp.hideAlgorithm, opaque |-> inp.opaque,
   authorizationHeaderName |-> inp.authorizationHeaderName]

\* the request object of input inp
RequestOf(inp) ==
  [method |-> S_GET, path |-> S_path,
   headers |-> (S_date :> inp.date) @@ (S_x_foo :> inp.xfoo),
   setCalls |-> <<>>]

FirstClock == CHOOSE t \in ClockMs : \A u \in ClockMs : t <= u

\* signRequest(request, options) is called; sr.given keeps the options as given
InitSign ==
  /\ \E inp \in SignInputs :
       /\ request = RequestOf(inp)
       /\ options = OptionsOf(inp)
       /\ sr = [IdleSr EXCEPT !.pc = "entry", !.given = OptionsOf(inp)]
  /\ clock = FirstClock
  /\ vr = IdleVr
  /\ fa = IdleFa
  /\ rs = IdleRs
  /\ io = IdleIo

(***************************************************************************)
(* signRequest (signer.js), in the order of its code.                      *)
(***************************************************************************)
\* lines 334-349: the Date header is added when missing, headers and httpVersion default
SignRequestEntry ==
  /\ sr.pc = "entry"
  /\ IF ~Truthy(getHeader(request, S_Date))
     THEN \E t \in ClockMs :
            /\ t >= clock
            /\ clock' = t
            /\ request' = setHeader(request, S_Date, Str(rfc1123(t)))
     ELSE UNCHANGED <<request, clock>>
  /\ options' = IF ~Truthy(options.httpVersion)
                THEN [options EXCEPT !.httpVersion = Str(S_1_1)]
                ELSE options
  /\ sr' = [sr EXCEPT !.pc = "algorithm",
                      !.headers = IF Truthy(options.headers) THEN options.headers.a
                                  ELSE <<S_date>>]
  /\ UNCHANGED <<vr, fa, rs, io>>

\* lines 351-355: [err, alg, algorithm]
GivenAlgorithm(opts) ==
  IF Truthy(opts.algorithm)
  THEN LET lower == toLowerCase(opts.algorithm.s)
           v == validateAlgorithm(lower, Undefined)
       IN [err |-> v.err, alg |-> IF v.err = "" THEN v.alg ELSE <<Undefined, Undefined>>,
           algorithm |-> Str(lower)]
  ELSE [err |-> "", alg |-> <<Undefined, Undefined>>, algorithm |-> opts.algorithm]

\* lines 389-391: the algorithm string written for an asymmetric key
EmittedAlgorithm(opts, alg) ==
  IF Truthy(opts.hideAlgorithm) THEN Str(S_hs2019)
  ELSE Str(alg[1].s \o <<"-">> \o alg[2].s)

\* lines 357-392: [err, alg, key, algorithm]
ResolveKey(opts, alg, algorithm) ==
  IF alg[1] = Str(S_hmac)
  THEN IF opts.key.type # "string"
       THEN [err |-> TypeError, alg |-> alg, key |-> opts.key, algorithm |-> algorithm]
       ELSE [err |-> "", alg |-> alg, key |-> opts.key, algorithm |-> algorithm]
  ELSE LET parsed == IF opts.key.type = "string" THEN parsePrivateKey(opts.key)
                     ELSE [err |-> "", key |-> opts.key]
           key == parsed.key
           fail(e) == [err |-> e, alg |-> alg, key |-> key, algorithm |-> algorithm]
       IN IF parsed.err # "" THEN fail(parsed.err)
          ELSE IF ~isPrivateKey(key) THEN fail(AssertionError)
          ELSE IF key.keytype \notin PK_ALGOS THEN fail(InvalidAlgorithmError)
          ELSE IF alg[1] # Undefined /\ Str(key.keytype) # alg[1]
               THEN fail(InvalidAlgorithmError)
          ELSE LET alg0 == IF alg[1] = Undefined THEN Str(key.keytype) ELSE alg[1]
                   alg1 == IF alg[2] = Undefined THEN Str(key.defaultHash) ELSE alg[2]
               IN [err |-> "", alg |-> <<alg0, alg1>>, key |-> key,
                   algorithm |-> EmittedAlgorithm(opts, <<alg0, alg1>>)]

ResolveAlgorithm_paramsFromPair ==
  /\ sr.pc = "algorithm"
  /\ LET g == GivenAlgorithm(options)
         r == ResolveKey(options, g.alg, g.algorithm)
     IN IF g.err # ""
        THEN /\ options' = [options EXCEPT !.algorithm = g.algorithm]
             /\ sr' = [sr EXCEPT !.pc = "thrown", !.result = Throw(g.err)]
        ELSE IF r.err # ""
        THEN /\ options' = [options EXCEPT !.algorithm = g.algorithm]
             /\ sr' = [sr EXCEPT !.pc = "thrown", !.result = Throw(r.err)]
        ELSE /\ options' = [options EXCEPT !.algorithm = r.algorithm]
             /\ sr' = [sr EXCEPT !.pc = "loop", !.alg = r.alg, !.key = r.key,
                                 !.params = <<[name |-> "keyId", value |-> options.keyId],
                                              [name |-> "algorithm",
                                               value |-> Str(r.alg[1].s \o <<"-">> \o r.alg[2].s)]>>,
                                 !.i = 0, !.stringToSign = <<>>]
  /\ UNCHANGED <<request, clock, vr, fa, rs, io>>

\* lines 351-400
ResolveAlgorithm ==
  /\ sr.pc = "algorithm"
  /\ LET g == GivenAlgorithm(options)
         r == ResolveKey(options, g.alg, g.algorithm)
     IN IF g.err # ""
        THEN /\ options' = [options EXCEPT !.algorithm = g.algorithm]
             /\ sr' = [sr EXCEPT !.pc = "thrown", !.result = Throw(g.err)]
        ELSE IF r.err # ""
        THEN /\ options' = [options EXCEPT !.algorithm = g.algorithm]
             /\ sr' = [sr EXCEPT !.pc = "thrown", !.result = Throw(r.err)]
        ELSE /\ options' = [options EXCEPT !.algorithm = r.algorithm]
             /\ sr' = [sr EXCEPT !.pc = "loop", !.alg = r.alg, !.key = r.key,
                                 !.params = <<[name |-> "keyId", value |-> options.keyId],
                                              [name |-> "algorithm", value |-> r.algorithm]>>,
                                 !.i = 0, !.stringToSign = <<>>]
  /\ UNCHANGED <<request, clock, vr, fa, rs, io>>

\* lines 436 and 444: Math.floor(Date.now() / 1000)
UnixSeconds(ms) == ms \div 1000

LineOk(line) == [err |-> "", line |-> line, created |-> Undefined, expires |-> Undefined]
LineFail(e) == [err |-> e, line |-> <<>>, created |-> Undefined, expires |-> Undefined]

RequestLine_lowerMethod(req, opts) ==
  IF ~Truthy(opts.strict)
  THEN LineOk(toLowerCase(req.method) \o <<SP>> \o req.path \o <<SP>> \o S_HTTP
              \o TemplateString(opts.httpVersion))
  ELSE LineFail(StrictParsingError)

\* lines 407-420: the request-line of the older drafts
RequestLine(req, opts) ==
  IF ~Truthy(opts.strict)
  THEN LineOk(req.method \o <<SP>> \o req.path \o <<SP>> \o S_HTTP
              \o TemplateString(opts.httpVersion))
  ELSE LineFail(StrictParsingError)

OrdinaryLine_falsy(h, req) ==
  LET value == getHeader(req, h)
  IN IF ~Truthy(value)
     THEN LineFail(MissingHeaderError)
     ELSE LineOk(h \o S_colon \o TemplateString(value))

\* lines 447-453: a header of the request
OrdinaryLine(h, req) ==
  LET value == getHeader(req, h)
  IN IF value = Undefined \/ value = Str(<<>>)
     THEN LineFail(MissingHeaderError)
     ELSE LineOk(h \o S_colon \o TemplateString(value))

\* lines 405-453: the line of header name h (lower-cased) at clock reading t:
\* [err, line, created, expires]
SignedLine(h, req, opts, t) ==
  IF h = S_request_line THEN RequestLine(req, opts)
  ELSE IF h = S_request_target
  THEN LineOk(S_request_target \o S_colon \o toLowerCase(req.method) \o <<SP>> \o req.path)
  ELSE IF h = S_keyid
  THEN LineOk(S_keyid \o S_colon \o TemplateString(opts.keyId))
  ELSE IF h = S_algorithm
  THEN LineOk(S_algorithm \o S_colon \o TemplateString(opts.algorithm))
  ELSE IF h = S_opaque
  THEN IF opts.opaque = Undefined \/ opts.opaque = Str(<<>>)
       THEN LineFail(MissingHeaderError)
       ELSE LineOk(S_opaque \o S_colon \o TemplateString(opts.opaque))
  ELSE IF h = S_created
  THEN LET created == UnixSeconds(t)
       IN [err |-> "", line |-> S_created \o S_colon \o Decimal(created),
           created |-> Num(created), expires |-> Undefined]
  ELSE IF h = S_expires
  THEN LET expiresIn == IF opts.expiresIn = Undefined THEN 60 ELSE opts.expiresIn.n
           expires == UnixSeconds(t) + expiresIn
       IN [err |-> "", line |-> S_expires \o S_colon \o Decimal(expires),
           created |-> Undefined, expires |-> Num(expires)]
  ELSE OrdinaryLine(h, req)

LineSeparator_always(i, n) == <<NL>>

\* line 455: what follows the line of index i (from 0) of n
LineSeparator(i, n) == IF i + 1 < n THEN <<NL>> ELSE <<>>

\* whether the line of h reads the clock
ReadsClock(h) == h \in {S_created, S_expires}

\* lines 401-456: one iteration of the loop over the header names
SignHeaderLine ==
  /\ sr.pc = "loop"
  /\ sr.i < Len(sr.headers)
  /\ LET h == toLowerCase(sr.headers[sr.i + 1])
     IN \E t \in ClockMs :
          /\ IF ReadsClock(h) THEN t >= clock ELSE t = clock
          /\ clock' = t
          /\ LET l == SignedLine(h, request, options, t)
                 p1 == IF l.created # Undefined
                       THEN SetParam(sr.params, "created", l.created) ELSE sr.params
                 p2 == IF l.expires # Undefined
                       THEN SetParam(p1, "expires", l.expires) ELSE p1
             IN IF l.err # ""
                THEN sr' = [sr EXCEPT !.pc = "thrown", !.result = Throw(l.err)]
                ELSE sr' = [sr EXCEPT !.params = p2,
                                      !.stringToSign = sr.stringToSign \o l.line
                                         \o LineSeparator(sr.i, Len(sr.headers)),
                                      !.i = sr.i + 1,
                                      !.names = Append(sr.names, h),
                                      !.lines = Append(sr.lines, l.line)]
  /\ UNCHANGED <<request, options, vr, fa, rs, io>>

\* lines 463-484: [err, signature]
Signature(alg, key, stringToSign) ==
  IF alg[1] = Str(S_hmac)
  THEN [err |-> "", signature |-> Base64Encode(Hmac(toUpperCase(alg[2].s), key, stringToSign))]
  ELSE LET sigObj == PrivateKeySign(key, alg[2].s, stringToSign)
       IN IF sigObj.hashAlgorithm \notin HASH_ALGOS
          THEN [err |-> InvalidAlgorithmError, signature |-> <<>>]
          ELSE IF alg[2].s # sigObj.hashAlgorithm \/ sigObj.text = <<>>
          THEN [err |-> AssertionError, signature |-> <<>>]
          ELSE [err |-> "", signature |-> sigObj.text]

\* lines 458-484, after the last header name
ComputeSignature ==
  /\ sr.pc = "loop"
  /\ sr.i >= Len(sr.headers)
  /\ LET s == Signature(sr.alg, sr.key, sr.stringToSign)
     IN IF s.err # ""
        THEN sr' = [sr EXCEPT !.pc = "thrown", !.result = Throw(s.err)]
        ELSE sr' = [sr EXCEPT !.pc = "emit", !.signature = s.signature]
  /\ UNCHANGED <<request, options, clock, vr, fa, rs, io>>

\* line 486
AuthzHeaderName(opts) ==
  IF Truthy(opts.authorizationHeaderName) THEN opts.authorizationHeaderName.s
  ELSE S_Authorization

AuthzPrefix_caseSensitive(authzHeaderName) ==
  IF authzHeaderName = HEADER_SIG THEN <<>> ELSE S_Signature_

\* lines 487-488
AuthzPrefix(authzHeaderName) ==
  IF toLowerCase(authzHeaderName) = HEADER_SIG THEN <<>> ELSE S_Signature_

\* lines 490-493: the params object handed to FormatAuthz
FinalParams(params, opts, signature) ==
  LET p1 == SetParam(params, "signature", Str(signature))
      p2 == IF Truthy(opts.opaque) THEN SetParam(p1, "opaque", opts.opaque) ELSE p1
  IN IF Truthy(opts.headers)
     THEN SetParam(p2, "headers", Str(join(opts.headers.a, <<SP>>)))
     ELSE p2

EmitHeader_returnsFalse ==
  /\ sr.pc = "emit"
  /\ LET name == AuthzHeaderName(options)
         params == FinalParams(sr.params, options, sr.signature)
         f == FormatAuthz(AuthzPrefix(name), params)
     IN /\ request' = setHeader(request, name, Str(f.authz))
        /\ sr' = [sr EXCEPT !.pc = "returned", !.params = params, !.result = Return(FALSE)]
  /\ UNCHANGED <<options, clock, vr, fa, rs, io>>

\* lines 486-497
EmitHeader ==
  /\ sr.pc = "emit"
  /\ LET name == AuthzHeaderName(options)
         params == FinalParams(sr.params, options, sr.signature)
         f == FormatAuthz(AuthzPrefix(name), params)
     IN IF f.err # ""
        THEN /\ sr' = [sr EXCEPT !.pc = "thrown", !.params = params, !.result = Throw(f.err)]
             /\ UNCHANGED request
        ELSE /\ request' = setHeader(request, name, Str(f.authz))
             /\ sr' = [sr EXCEPT !.pc = "returned", !.params = params, !.result = Return(TRUE)]
  /\ UNCHANGED <<options, clock, vr, fa, rs, io>>

(***************************************************************************)
(* verifyHMAC (verify.js).                                                 *)
(***************************************************************************)
\* the object the parser hands to the verifier for the header signRequest wrote
ParsedSignature(params, signingString) ==
  [algorithm |-> GetParam(params, "algorithm").s,
   signingString |-> signingString,
   params |-> [signature |-> GetParam(params, "signature").s]]

verifyHMAC_noDecode(parsedSignature, secret) ==
  LET v == validateAlgorithm(parsedSignature.algorithm, Undefined)
  IN IF secret.type # "string" THEN Throw(AssertionError)
     ELSE IF v.err # "" THEN Throw(v.err)
     ELSE IF v.alg[1] # Str(S_hmac) THEN Return(FALSE)
     ELSE LET hashAlg == toUpperCase(v.alg[2].s)
              hmac == Hmac(hashAlg, secret, parsedSignature.signingString)
              h1 == Hmac(hashAlg, secret, hmac)
              h2 == Hmac(hashAlg, secret, ToString(parsedSignature.params.signature))
          IN Return(h1 = h2)

\* lines 51-84
verifyHMAC(parsedSignature, secret) ==
  LET v == validateAlgorithm(parsedSignature.algorithm, Undefined)
  IN IF secret.type # "string" THEN Throw(AssertionError)
     ELSE IF v.err # "" THEN Throw(v.err)
     ELSE IF v.alg[1] # Str(S_hmac) THEN Return(FALSE)
     ELSE LET hashAlg == toUpperCase(v.alg[2].s)
              hmac == Hmac(hashAlg, secret, parsedSignature.signingString)
              h1 == Hmac(hashAlg, secret, hmac)
              h2 == Hmac(hashAlg, secret, Base64Decode(parsedSignature.params.signature))
          IN Return(h1 = h2)

VerifySecrets == {Secret_s, Secret_w}

\* the receiver verifies the header signRequest wrote, with a secret of its own
VerifyHMAC ==
  /\ sr.pc = "returned"
  /\ ~vr.called
  /\ \E secret \in VerifySecrets :
       vr' = [called |-> TRUE, secret |-> secret,
              result |-> verifyHMAC(ParsedSignature(sr.params, sr.stringToSign), secret)]
  /\ UNCHANGED <<request, options, clock, sr, fa, rs, io>>

NextSign ==
  \/ SignRequestEntry
  \/ ResolveAlgorithm
  \/ SignHeaderLine
  \/ ComputeSignature
  \/ EmitHeader
  \/ VerifyHMAC

Spec == InitSign /\ [][NextSign]_vars


(***************************************************************************)
(* Properties of signRequest and verifyHMAC.                               *)
(***************************************************************************)
\* signRequest has built the whole signing string without an error
Accepted == sr.pc \in {"emit", "returned"}

\* signRequest has returned or thrown
Finished == sr.pc \in {"returned", "thrown"}

StartsWith(s, p) == Len(s) >= Len(p) /\ SubSeq(s, 1, Len(p)) = p

\* the listed name of index k, lower-cased
ListedName(k) == toLowerCase(sr.headers[k])

\* a name that is looked up in the request's headers
Ordinary(h) ==
  h \notin {S_request_line, S_request_target, S_keyid, S_algorithm, S_opaque, S_created,
            S_expires}

Absent(v) == v = Undefined \/ v = Str(<<>>)

\* the listed name of index k needs a value that is absent or the empty string
NeedsMissingValue(k) ==
  \/ ListedName(k) = S_opaque /\ Absent(sr.given.opaque)
  \/ Ordinary(ListedName(k)) /\ Absent(getHeader(request, ListedName(k)))

\* the listed name of index k is request-line and strict parsing is on
StrictRequestLine(k) == ListedName(k) = S_request_line /\ Truthy(sr.given.strict)

\* signRequest failed on its algorithm or key, before reading the header list
AlgorithmKeyError ==
  /\ sr.result.kind = "throw"
  /\ sr.result.error \in {TypeError, InvalidAlgorithmError, KeyParseError, AssertionError}

\* C1: for an accepted list of n >= 1 names the signing string is the n rendered
\* lines, one per listed name (lower-cased) in list order, joined by single "\n":
\* n-1 separators, no leading and no trailing newline.
C1_SigningStringLines ==
  Accepted /\ Len(sr.headers) >= 1 =>
    LET n == Len(sr.headers)
    IN /\ Len(sr.lines) = n
       /\ sr.stringToSign = join(sr.lines, <<NL>>)
       /\ \A k \in 1..n :
            /\ sr.names[k] = ListedName(k)
            /\ Count(sr.lines[k], NL) = 0
            /\ sr.names[k] # S_request_line => StartsWith(sr.lines[k], sr.names[k] \o S_colon)
       /\ Count(sr.stringToSign, NL) = n - 1
       /\ sr.stringToSign[1] # NL
       /\ sr.stringToSign[Len(sr.stringToSign)] # NL

C1_Witness ==
  /\ sr.pc = "returned"
  /\ Len(sr.headers) >= 2
  /\ Count(sr.stringToSign, NL) = Len(sr.headers) - 1

\* C2: a signature signRequest made with hmac-h and secret s over m is accepted by
\* verifyHMAC with secret s, and rejected with any secret whose HMAC over m differs.
C2_HmacRoundTrip ==
  vr.called /\ sr.alg[1] = Str(S_hmac) =>
    LET h == toUpperCase(sr.alg[2].s)
        m == sr.stringToSign
    IN /\ vr.secret = sr.key => vr.result = Return(TRUE)
       /\ Hmac(h, vr.secret, m) # Hmac(h, sr.key, m) => vr.result = Return(FALSE)

C2_Witness ==
  /\ vr.called
  /\ sr.alg[1] = Str(S_hmac)
  /\ vr.secret = sr.key
  /\ vr.result = Return(TRUE)
  /\ Len(sr.lines) >= 2

\* C4: in every header signRequest emits keyId and signature are present and the
\* headers parameter is the space-joined list of the lower-cased names signed, in
\* signing order, also with the default list and with names given in mixed case.
C4_HeadersParameterIsSignedNames ==
  sr.pc = "returned" =>
    /\ IsString(GetParam(sr.params, "keyId"))
    /\ IsString(GetParam(sr.params, "signature"))
    /\ GetParam(sr.params, "headers") = Str(join(sr.names, <<SP>>))

\* the setHeader calls on the request that name the signature header
SignatureHeaderCalls ==
  {k \in 1..Len(request.setCalls) :
     toLowerCase(request.setCalls[k].name) = toLowerCase(AuthzHeaderName(sr.given))}

\* C5: signRequest returns true having set the signature header exactly once, as
\* its last effect, or raises an error without having set it; it returns nothing else.
C5_TrueOrThrow ==
  /\ sr.result.kind = "return" => sr.result = Return(TRUE) /\ sr.pc = "returned"
  /\ sr.pc = "returned" =>
       /\ sr.result = Return(TRUE)
       /\ SignatureHeaderCalls = {Len(request.setCalls)}
       /\ request.setCalls[Len(request.setCalls)].name = AuthzHeaderName(sr.given)
  /\ sr.pc = "thrown" => sr.result.kind = "throw" /\ SignatureHeaderCalls = {}
  /\ sr.pc \in {"entry", "algorithm", "loop", "emit"} =>
       sr.result = NoResult /\ SignatureHeaderCalls = {}

C5_Witness ==
  /\ sr.pc = "returned"
  /\ Len(request.setCalls) = 2
  /\ sr.given.authorizationHeaderName = Undefined

\* a listed header with a present, non-empty value is signed as "name: value" and
\* is not the name reported missing
PresentHeadersSigned ==
  \A k \in 1..Len(sr.headers) :
    LET h == ListedName(k)
        value == getHeader(request, h)
    IN Ordinary(h) /\ ~Absent(value) =>
         /\ k <= Len(sr.lines) =>
              sr.lines[k] = h \o S_colon \o (IF IsString(value) THEN value.s ELSE Decimal(value.n))
         /\ ~(sr.result = Throw(MissingHeaderError) /\ Len(sr.lines) = k - 1)

\* C6 as stated: signRequest fails with MissingHeaderError if and only if some
\* listed name needs a value that is absent or empty.
C6_MissingIffSomeNameAbsent ==
  Finished =>
    /\ sr.result = Throw(MissingHeaderError)
         <=> \E k \in 1..Len(sr.headers) : NeedsMissingValue(k)
    /\ PresentHeadersSigned

\* C6 as amended: provided the algorithm and key are accepted, signRequest fails
\* with MissingHeaderError if and only if some listed name needs a value that is
\* absent or empty and no name listed before it is request-line under strict
\* parsing; a listed header with a present, non-empty value is signed as
\* "name: value" and never reported missing.
C6_MissingIffFirstFailureAbsent ==
  Finished /\ ~AlgorithmKeyError =>
    /\ sr.result = Throw(MissingHeaderError)
         <=> \E k \in 1..Len(sr.headers) :
               NeedsMissingValue(k) /\ \A j \in 1..(k - 1) : ~StrictRequestLine(j)
    /\ PresentHeadersSigned

C6_Witness ==
  /\ sr.result = Throw(MissingHeaderError)
  /\ sr.names = <<S_x_foo>>
  /\ getHeader(request, S_x_foo) = Num(0)

\* the request-line as the older drafts render it
ExpectedRequestLine ==
  request.method \o <<SP>> \o request.path \o <<SP>> \o S_HTTP
    \o (IF sr.given.httpVersion = Undefined THEN S_1_1 ELSE sr.given.httpVersion.s)

\* C7 as stated: with request-line listed, signRequest fails with
\* StrictParsingError if strict is true, and otherwise succeeds and renders the
\* line as "{METHOD} {path} HTTP/{httpVersion}".
C7_RequestLineStrictOrSucceeds ==
  Finished /\ (\E k \in 1..Len(sr.headers) : ListedName(k) = S_request_line) =>
    IF Truthy(sr.given.strict)
    THEN sr.result = Throw(StrictParsingError)
    ELSE /\ sr.result = Return(TRUE)
         /\ \A k \in 1..Len(sr.headers) :
              ListedName(k) = S_request_line => sr.lines[k] = ExpectedRequestLine

\* C7 as amended: provided the algorithm and key are accepted, with request-line
\* listed (in any letter case) signRequest fails with StrictParsingError if strict
\* is true and no name listed before it needs an absent or empty value; if strict
\* is false or unset the line is rendered as "{METHOD} {path} HTTP/{httpVersion}"
\* (method in its original case, httpVersion defaulting to "1.1") and signRequest
\* succeeds provided no listed name needs an absent or empty value.
C7_RequestLineUnlessOtherFailure ==
  Finished /\ ~AlgorithmKeyError =>
    \A k \in 1..Len(sr.headers) :
      ListedName(k) = S_request_line =>
        IF Truthy(sr.given.strict)
        THEN (\A j \in 1..(k - 1) : ~NeedsMissingValue(j))
               => sr.result = Throw(StrictParsingError)
        ELSE /\ k <= Len(sr.lines) => sr.lines[k] = ExpectedRequestLine
             /\ (\A j \in 1..Len(sr.headers) : ~NeedsMissingValue(j))
                  => sr.result = Return(TRUE) /\ k <= Len(sr.lines)

C7_Witness ==
  /\ sr.pc = "returned"
  /\ sr.given.strict = Undefined
  /\ sr.given.httpVersion = Undefined
  /\ \E k \in 1..Len(sr.headers) :
       sr.headers[k] = S_Request_Line /\ sr.lines[k] = ExpectedRequestLine


(***************************************************************************)
(* FormatAuthz on its own: any params object of up to MaxParams fields, in *)
(* any insertion order.                                                    *)
(***************************************************************************)
ParamNames == {AUTHZ_PARAMS[k] : k \in 1..Len(AUTHZ_PARAMS)}

ParamValues(name) ==
  {Str(<<"v">>), Num(12)} \cup (IF name = "opaque" THEN {Null} ELSE {})

Properties == UNION {[name : {p}, value : ParamValues(p)] : p \in ParamNames}

ParamObjects ==
  {ps \in UNION {[1..n -> Properties] : n \in 0..MaxParams} :
     \A j, k \in 1..Len(ps) : j # k => ps[j].name # ps[k].name}

Prefixes == {S_Signature_, <<>>}

InitFormat ==
  /\ fa \in [prefix : Prefixes, params : ParamObjects, out : {NoResult}, ref : {NoResult},
             reinserted : {FALSE}]
  /\ request = IdleRequest
  /\ options = IdleOptions
  /\ clock = FirstClock
  /\ sr = IdleSr
  /\ vr = IdleVr
  /\ rs = IdleRs
  /\ io = IdleIo

\* the value FormatAuthz returns, or the error it throws
CallResult(f) == IF f.err # "" THEN Throw(f.err) ELSE Return(Str(f.authz))

\* FormatAuthz(prefix, params) is called; fa.ref keeps the first result
CallFormatAuthz ==
  /\ fa.out = NoResult
  /\ LET out == CallResult(FormatAuthz(fa.prefix, fa.params))
     IN fa' = [fa EXCEPT !.out = out, !.ref = IF fa.ref = NoResult THEN out ELSE fa.ref]
  /\ UNCHANGED <<request, options, clock, sr, vr, rs, io>>

\* the caller builds the same object again, two of its fields inserted the other way round
ReinsertParams ==
  /\ fa.out # NoResult
  /\ \E j, k \in 1..Len(fa.params) :
       /\ j < k
       /\ fa' = [fa EXCEPT !.params = [fa.params EXCEPT ![j] = fa.params[k], ![k] = fa.params[j]],
                           !.out = NoResult, !.reinserted = TRUE]
  /\ UNCHANGED <<request, options, clock, sr, vr, rs, io>>

NextFormat == CallFormatAuthz \/ ReinsertParams

SpecFormat == InitFormat /\ [][NextFormat]_vars

\* one field as the header carries it
FieldText(param, value) ==
  IF IsNumber(value) THEN ParamName[param] \o <<"=">> \o Decimal(value.n)
  ELSE ParamName[param] \o <<"=">> \o <<"\"">> \o value.s \o <<"\"">>

\* the fields present in params, in the fixed order, separated by ","
ExpectedAuthz(prefix, params) ==
  LET present == SelectSeq(AUTHZ_PARAMS, LAMBDA p : GetParam(params, p) # Undefined)
      fields == [k \in 1..Len(present) |-> FieldText(present[k], GetParam(params, present[k]))]
  IN IF Len(present) = 0 THEN <<>> ELSE prefix \o join(fields, <<",">>)

\* C3: FormatAuthz returns the prefix followed by the present fields in the fixed
\* order keyId, algorithm, created, expires, opaque, headers, signature, separated
\* by ",", numbers as name=value and strings as name="value" (nothing at all when
\* no field is present); the result is the same for every insertion order.
C3_FormatAuthzFixedOrder ==
  fa.out # NoResult =>
    /\ fa.out = fa.ref
    /\ (\A k \in 1..Len(fa.params) :
          IsString(fa.params[k].value) \/ IsNumber(fa.params[k].value))
         => fa.out = Return(Str(ExpectedAuthz(fa.prefix, fa.params)))

C3_Witness ==
  /\ fa.reinserted
  /\ fa.out.kind = "return"
  /\ fa.prefix = S_Signature_
  /\ Len(fa.params) = 3
  /\ fa.params[1].name = "signature"
  /\ fa.params[2] = [name |-> "created", value |-> Num(12)]
  /\ fa.params[3].name = "keyId"


(***************************************************************************)
(* The incremental signer: RequestSigner (signer.js).                      *)
(***************************************************************************)
S_X_Foo == <<"X", "-", "F", "o", "o">>
S_foo == <<"f", "o", "o">>
S_fakesig == <<"f", "a", "k", "e", "s", "i", "g">>

\* the options given to createSigner
SignerOptions ==
  {[sign |-> Bool(TRUE), algorithm |-> Undefined, key |-> Undefined, keyId |-> Undefined],
   [sign |-> Undefined, algorithm |-> Str(S_hmac_sha256), key |-> Secret_s, keyId |-> Str(S_foo)],
   [sign |-> Undefined, algorithm |-> Str(S_RSA_SHA512), key |-> PEM_rsa, keyId |-> Str(S_foo)],
   [sign |-> Undefined, algorithm |-> Undefined, key |-> PEM_rsa, keyId |-> Str(S_foo)],
   [sign |-> Undefined, algorithm |-> Undefined, key |-> PEM_ed25519, keyId |-> Str(S_foo)],
   [sign |-> Undefined, algorithm |-> Str(S_rsa_sha256), key |-> PEM_dsa, keyId |-> Str(S_foo)],
   [sign |-> Undefined, algorithm |-> Str(S_rsa_md5), key |-> PEM_rsa, keyId |-> Str(S_foo)],
   [sign |-> Undefined, algorithm |-> Undefined, key |-> Secret_s, keyId |-> Str(S_foo)],
   [sign |-> Undefined, algorithm |-> Undefined, key |-> Undefined, keyId |-> Str(S_foo)]}

InitSigner ==
  /\ \E o \in SignerOptions : io = [IdleIo EXCEPT !.pc = "new", !.given = o]
  /\ rs = IdleRs
  /\ request = IdleRequest
  /\ options = IdleOptions
  /\ clock = FirstClock
  /\ sr = IdleSr
  /\ vr = IdleVr
  /\ fa = IdleFa

\* a streaming digest or signer: crypto.createHmac, key.createSign.  It holds the data
\* fed so far, how often it was finalized and the data of its first finalization.
Signer(kind, hash, key) ==
  [kind |-> kind, hash |-> hash, key |-> key, data |-> <<>>, finalized |-> FALSE,
   finalizations |-> 0, signed |-> <<>>]

\* sshpk's signer for ed25519 keys buffers the chunks it is given and signs their
\* concatenation on every sign(): it takes data and signs again after sign().
\* node's Hmac and Sign objects take no data after they were finalized.
Reusable(signer) == signer.kind = "pk" /\ signer.key.keytype = S_ed25519

\* lines 65-146: new RequestSigner(options): [err, rs]
RequestSigner(o) ==
  LET v == IF o.algorithm # Undefined THEN validateAlgorithm(o.algorithm.s, Undefined)
           ELSE [err |-> "", alg |-> <<Undefined, Undefined>>]
      alg == v.alg
      obj == [IdleRs EXCEPT !.rs_alg = alg]
      fail(e) == [err |-> e, rs |-> IdleRs]
  IN IF v.err # "" THEN fail(v.err)
     ELSE IF o.sign # Undefined
     THEN [err |-> "", rs |-> [obj EXCEPT !.kind = "signFunc"]]
     ELSE IF alg[1] = Str(S_hmac) /\ o.key # Undefined
     THEN IF ~IsString(o.keyId) THEN fail(AssertionError)
          ELSE IF ~IsString(o.key) THEN fail(TypeError)
          ELSE [err |-> "",
                rs |-> [obj EXCEPT !.kind = "signer", !.rs_keyId = o.keyId,
                                   !.rs_signer = Signer("hmac", Str(toUpperCase(alg[2].s)), o.key)]]
     ELSE IF o.key # Undefined
     THEN LET parsed == IF IsString(o.key) THEN parsePrivateKey(o.key)
                        ELSE [err |-> "", key |-> o.key]
              key == parsed.key
          IN IF parsed.err # "" THEN fail(parsed.err)
             ELSE IF ~isPrivateKey(key) THEN fail(AssertionError)
             ELSE IF ~IsString(o.keyId) THEN fail(AssertionError)
             ELSE IF key.keytype \notin PK_ALGOS THEN fail(InvalidAlgorithmError)
             ELSE IF alg[1] # Undefined /\ Str(key.keytype) # alg[1]
                  THEN fail(InvalidAlgorithmError)
             ELSE [err |-> "",
                   rs |-> [obj EXCEPT !.kind = "signer", !.rs_key = key, !.rs_keyId = o.keyId,
                                      !.rs_signer = Signer("pk", alg[2], key)]]
     ELSE fail(TypeError)

\* createSigner(options)
CreateSigner ==
  /\ io.pc = "new"
  /\ LET r == RequestSigner(io.given)
     IN IF r.err # ""
        THEN /\ io' = [io EXCEPT !.pc = "failed", !.threw = r.err]
             /\ UNCHANGED rs
        ELSE /\ io' = [io EXCEPT !.pc = "ready"]
             /\ rs' = r.rs
  /\ UNCHANGED <<request, options, clock, sr, vr, fa>>

HashFinalized == "ERR_CRYPTO_HASH_FINALIZED"

\* rs_signer.update(line): [err, signer]
SignerUpdate(signer, line) ==
  IF signer.finalized /\ ~Reusable(signer) THEN [err |-> HashFinalized, signer |-> signer]
  ELSE [err |-> "", signer |-> [signer EXCEPT !.data = signer.data \o line]]

WrittenLine_asGiven(header, value) == header \o S_colon \o value

\* lines 163 and 165-168: the line of a header, its name already lower-cased
WrittenLine(header, value) == toLowerCase(header) \o S_colon \o value

writeHeader_separatorFirst(obj, header, value) ==
  LET rs_headers == Append(obj.rs_headers, toLowerCase(header))
      pushed == [obj EXCEPT !.rs_headers = rs_headers]
  IN IF obj.kind = "signFunc"
     THEN [err |-> "",
           rs |-> [pushed EXCEPT !.rs_lines = Append(obj.rs_lines, WrittenLine(header, value))]]
     ELSE LET line == IF Len(rs_headers) > 0 THEN <<NL>> \o WrittenLine(header, value)
                      ELSE WrittenLine(header, value)
              u == SignerUpdate(obj.rs_signer, line)
          IN [err |-> u.err, rs |-> [pushed EXCEPT !.rs_signer = u.signer]]

\* lines 155-173: writeHeader(header, value) on object obj: [err, rs]
writeHeader(obj, header, value) ==
  LET rs_headers == Append(obj.rs_headers, toLowerCase(header))
      pushed == [obj EXCEPT !.rs_headers = rs_headers]
  IN IF obj.kind = "signFunc"
     THEN [err |-> "",
           rs |-> [pushed EXCEPT !.rs_lines = Append(obj.rs_lines, WrittenLine(header, value))]]
     ELSE LET line == IF Len(rs_headers) > 1 THEN <<NL>> \o WrittenLine(header, value)
                      ELSE WrittenLine(header, value)
              u == SignerUpdate(obj.rs_signer, line)
          IN [err |-> u.err, rs |-> [pushed EXCEPT !.rs_signer = u.signer]]

\* the record of a write call: what was passed, what it returned or threw
WriteCall(op, a, b, r, returned) ==
  [op |-> op, a |-> a, b |-> b, threw |-> r.err,
   returned |-> IF r.err = "" THEN returned ELSE Undefined]

WrittenHeaders == {<<S_X_Foo, <<"b">> >>, <<S_x_foo, <<"0">> >>}

\* signer.writeHeader(header, value)
WriteHeader ==
  /\ io.pc = "ready"
  /\ Len(rs.rs_headers) < MaxWrites
  /\ \E hv \in WrittenHeaders :
       LET r == writeHeader(rs, hv[1], hv[2])
           call == WriteCall("writeHeader", hv[1], hv[2], r, Str(hv[2]))
       IN /\ rs' = r.rs
          /\ io' = [io EXCEPT !.writes = Append(io.writes, call), !.lastWrite = call]
  /\ UNCHANGED <<request, options, clock, sr, vr, fa>>

\* lines 180-182: signer.writeDateHeader()
WriteDateHeader ==
  /\ io.pc = "ready"
  /\ Len(rs.rs_headers) < MaxWrites
  /\ \E t \in ClockMs :
       /\ t >= clock
       /\ clock' = t
       /\ LET r == writeHeader(rs, S_date, rfc1123(t))
              call == WriteCall("writeDateHeader", <<>>, rfc1123(t), r, Str(rfc1123(t)))
          IN /\ rs' = r.rs
             /\ io' = [io EXCEPT !.writes = Append(io.writes, call), !.lastWrite = call]
  /\ UNCHANGED <<request, options, sr, vr, fa>>

\* lines 190-195: signer.writeTarget(method, path)
WriteTarget ==
  /\ io.pc = "ready"
  /\ Len(rs.rs_headers) < MaxWrites
  /\ LET r == writeHeader(rs, S_request_target, toLowerCase(S_GET) \o <<SP>> \o S_path)
         call == WriteCall("writeTarget", S_GET, S_path, r, Undefined)
     IN /\ rs' = r.rs
        /\ io' = [io EXCEPT !.writes = Append(io.writes, call), !.lastWrite = call]
  /\ UNCHANGED <<request, options, clock, sr, vr, fa>>


\* an invocation of the caller's callback: cb(err) or cb(null, authz)
ErrorObject(name) == [type |-> "error", name |-> name]
CbError(e) == [err |-> e, authz |-> Undefined]
CbHeader(authz) == [err |-> Null, authz |-> Str(authz)]

\* line 212: the signing string handed to the user's sign function
SignFuncData(obj) == join(obj.rs_lines, <<NL>>)

\* rs_signer.sign(): the signer after its finalization
SignerSign(signer) ==
  [signer EXCEPT !.finalized = TRUE,
                 !.finalizations = signer.finalizations + 1,
                 !.signed = IF signer.finalized THEN signer.signed ELSE signer.data]

\* lines 239-255, the signer with a key: [threw, cb, signer].  The signature object
\* is declared inside the try block (line 240), so the name sigObj read at line
\* 245 is bound to nothing and reading it raises ReferenceError.  On a finalized
\* signer, node's Sign throws inside the try, and node's Hmac returns an empty
\* digest without finalizing again.
KeySign(obj) ==
  IF obj.rs_signer.finalized /\ ~Reusable(obj.rs_signer)
  THEN IF obj.rs_signer.kind = "hmac"
       THEN [threw |-> ReferenceError, cb |-> <<>>, signer |-> obj.rs_signer]
       ELSE [threw |-> "", cb |-> <<CbError(ErrorObject(HashFinalized))>>,
             signer |-> obj.rs_signer]
  ELSE [threw |-> ReferenceError, cb |-> <<>>, signer |-> SignerSign(obj.rs_signer)]

\* lines 203-257: signer.sign(cb)
Sign ==
  /\ io.pc = "ready"
  /\ io.nSigns < MaxSigns
  /\ LET n == Len(rs.rs_headers)
         call(threw, cb) == [op |-> "sign", n |-> n, threw |-> threw, cb |-> cb]
     IN IF n < 1
        THEN /\ io' = [io EXCEPT !.nSigns = io.nSigns + 1,
                                 !.lastSign = call(AtLeastOneHeaderError, <<>>)]
             /\ UNCHANGED rs
        ELSE IF rs.kind = "signFunc"
        THEN /\ io' = [io EXCEPT !.nSigns = io.nSigns + 1,
                                 !.lastSign = call("", <<>>),
                                 !.signFunc = [op |-> "signFunc", data |-> SignFuncData(rs),
                                               nwrites |-> Len(io.writes)]]
             /\ UNCHANGED rs
        ELSE LET k == KeySign(rs)
             IN /\ io' = [io EXCEPT !.nSigns = io.nSigns + 1,
                                    !.lastSign = call(k.threw, k.cb),
                                    !.cbCount = io.cbCount + Len(k.cb)]
                /\ rs' = [rs EXCEPT !.rs_signer = k.signer]
  /\ UNCHANGED <<request, options, clock, sr, vr, fa>>

\* what the user's sign function hands to its completion
SigObject(keyId, algorithm, signature) ==
  [type |-> "object", keyId |-> keyId, algorithm |-> algorithm, signature |-> signature]

CompletionArgs ==
  {[err |-> Str(<<"E">>), sig |-> Undefined],
   [err |-> Null, sig |-> SigObject(Str(S_foo), Str(S_hmac_sha256), Str(S_fakesig))],
   [err |-> Null, sig |-> SigObject(Str(S_foo), Str(S_RSA_SHA512), Str(S_fakesig))],
   [err |-> Null, sig |-> SigObject(Str(S_foo), Str(S_rsa_md5), Str(S_fakesig))],
   [err |-> Null, sig |-> SigObject(Undefined, Str(S_hmac_sha256), Str(S_fakesig))],
   [err |-> Null, sig |-> Undefined]}

SignFuncCallback_noValidation(obj, err, sig) ==
  IF Truthy(err) THEN CbError(err)
  ELSE IF sig.type # "object" THEN CbError(ErrorObject(AssertionError))
  ELSE IF ~IsString(sig.keyId) \/ ~IsString(sig.algorithm) \/ ~IsString(sig.signature)
       THEN CbError(ErrorObject(AssertionError))
  ELSE LET f == FormatAuthz(S_Signature_,
                            <<[name |-> "keyId", value |-> sig.keyId],
                              [name |-> "algorithm", value |-> sig.algorithm],
                              [name |-> "headers", value |-> Str(join(obj.rs_headers, <<SP>>))],
                              [name |-> "signature", value |-> sig.signature]>>)
       IN IF f.err # "" THEN CbError(ErrorObject(f.err)) ELSE CbHeader(f.authz)

\* lines 214-237: the completion given to the user's sign function: the cb invocation
SignFuncCallback(obj, err, sig) ==
  IF Truthy(err) THEN CbError(err)
  ELSE IF sig.type # "object" THEN CbError(ErrorObject(AssertionError))
  ELSE IF ~IsString(sig.keyId) \/ ~IsString(sig.algorithm) \/ ~IsString(sig.signature)
       THEN CbError(ErrorObject(AssertionError))
  ELSE IF validateAlgorithm(sig.algorithm.s, Undefined).err # ""
       THEN CbError(ErrorObject(validateAlgorithm(sig.algorithm.s, Undefined).err))
  ELSE LET f == FormatAuthz(S_Signature_,
                            <<[name |-> "keyId", value |-> sig.keyId],
                              [name |-> "algorithm", value |-> sig.algorithm],
                              [name |-> "headers", value |-> Str(join(obj.rs_headers, <<SP>>))],
                              [name |-> "signature", value |-> sig.signature]>>)
       IN IF f.err # "" THEN CbError(ErrorObject(f.err)) ELSE CbHeader(f.authz)

\* the user's sign function invokes the completion it was given
SignFuncCompletion ==
  /\ io.pc = "ready"
  /\ io.signFunc # NoCall
  /\ io.nCompletions < MaxCompletions
  /\ \E arg \in CompletionArgs :
       io' = [io EXCEPT !.nCompletions = io.nCompletions + 1,
                        !.cbCount = io.cbCount + 1,
                        !.lastCompletion =
                           [op |-> "completion", arg |-> arg, nwrites |-> Len(io.writes),
                            cb |-> <<SignFuncCallback(rs, arg.err, arg.sig)>>]]
  /\ UNCHANGED <<request, options, clock, sr, vr, fa, rs>>

NextSigner ==
  \/ CreateSigner
  \/ WriteHeader
  \/ WriteDateHeader
  \/ WriteTarget
  \/ Sign
  \/ SignFuncCompletion

SpecSigner == InitSigner /\ [][NextSigner]_vars

(***************************************************************************)
(* Properties of the incremental signer.                                   *)
(***************************************************************************)
\* the header name a write call signs
ExpectedName(call) ==
  CASE call.op = "writeHeader" -> toLowerCase(call.a)
    [] call.op = "writeDateHeader" -> S_date
    [] call.op = "writeTarget" -> S_request_target

\* the line a write call signs
ExpectedLine(call) ==
  CASE call.op = "writeHeader" -> toLowerCase(call.a) \o <<":", " ">> \o call.b
    [] call.op = "writeDateHeader" -> S_date \o <<":", " ">> \o call.b
    [] call.op = "writeTarget" ->
         S_request_target \o <<":", " ">> \o toLowerCase(call.a) \o <<" ">> \o call.b

ExpectedLines(calls) == [k \in 1..Len(calls) |-> ExpectedLine(calls[k])]
ExpectedNames(calls) == [k \in 1..Len(calls) |-> ExpectedName(calls[k])]

Quoted(s) == <<"\"">> \o s \o <<"\"">>

\* the header of a signature: Signature keyId="..",algorithm="..",headers="..",signature=".."
ExpectedHeader(keyId, algorithm, names, signature) ==
  S_Signature_ \o ParamName["keyId"] \o <<"=">> \o Quoted(keyId)
    \o <<",">> \o ParamName["algorithm"] \o <<"=">> \o Quoted(algorithm)
    \o <<",">> \o ParamName["headers"] \o <<"=">> \o Quoted(join(names, <<SP>>))
    \o <<",">> \o ParamName["signature"] \o <<"=">> \o Quoted(signature)

\* the algorithm a signer with a key writes: {keyType}-{hash}
KeySignerAlgorithm ==
  LET keyType == IF rs.rs_alg[1] # Undefined THEN rs.rs_alg[1].s ELSE rs.rs_key.keytype
      hash == IF rs.rs_alg[2] # Undefined THEN rs.rs_alg[2].s ELSE rs.rs_key.defaultHash
  IN keyType \o <<"-">> \o hash

\* C8: on a signer created with a key, with at least one header written, the first
\* sign(cb) invokes cb with no error and a header of the form
\* Signature keyId="..",algorithm="{keyType}-{hash}",headers="..",signature="..",
\* and raises no exception.
C8_KeySignerDeliversHeader ==
  rs.kind = "signer" /\ io.lastSign # NoCall /\ io.nSigns = 1 /\ io.lastSign.n >= 1 =>
    /\ io.lastSign.threw = ""
    /\ Len(io.lastSign.cb) = 1
    /\ io.lastSign.cb[1].err = Null
    /\ IsString(io.lastSign.cb[1].authz)
    /\ StartsWith(io.lastSign.cb[1].authz.s,
                  S_Signature_ \o ParamName["keyId"] \o <<"=">> \o Quoted(rs.rs_keyId.s)
                    \o <<",">> \o ParamName["algorithm"] \o <<"=">> \o Quoted(KeySignerAlgorithm)
                    \o <<",">> \o ParamName["headers"] \o <<"=">>
                    \o Quoted(join(ExpectedNames(io.writes), <<SP>>))
                    \o <<",">> \o ParamName["signature"] \o <<"=">>)

\* C9: the user's sign function receives exactly the lines "name: value" (name
\* lower-cased) of the headers written, in write order, joined by "\n"; when its
\* completion supplies {keyId, algorithm, signature}, a header passed to cb holds
\* that keyId, algorithm and signature verbatim with the recorded header names,
\* and cb does get the header when the algorithm is a valid one.
C9_SignFuncDataAndHeader ==
  /\ io.signFunc # NoCall =>
       io.signFunc.data = join(ExpectedLines(SubSeq(io.writes, 1, io.signFunc.nwrites)), <<NL>>)
  /\ io.lastCompletion # NoCall =>
       LET arg == io.lastCompletion.arg
           cb == io.lastCompletion.cb
       IN /\ Len(cb) = 1
          /\ ~Truthy(arg.err) /\ arg.sig.type = "object" /\ IsString(arg.sig.keyId) =>
               /\ cb[1].err = Null =>
                    cb[1].authz =
                      Str(ExpectedHeader(arg.sig.keyId.s, arg.sig.algorithm.s,
                                         ExpectedNames(SubSeq(io.writes, 1, io.lastCompletion.nwrites)),
                                         arg.sig.signature.s))
               /\ validateAlgorithm(arg.sig.algorithm.s, Undefined).err = "" => cb[1].err = Null

C9_Witness ==
  /\ io.lastCompletion # NoCall
  /\ io.lastCompletion.cb[1].err = Null
  /\ io.lastCompletion.arg.sig.algorithm = Str(S_RSA_SHA512)
  /\ io.signFunc.nwrites = 2
  /\ io.writes[1].op = "writeHeader"
  /\ io.writes[1].a = S_X_Foo
  /\ io.writes[2].op = "writeTarget"

\* C10: sign(cb) on a signer with no header written reports the failure through
\* cb (cb is invoked with an error) and throws nothing to the caller of sign.
C10_NoHeaderReportedThroughCallback ==
  io.lastSign # NoCall /\ io.lastSign.n = 0 =>
    /\ io.lastSign.threw = ""
    /\ Len(io.lastSign.cb) = 1
    /\ io.lastSign.cb[1].err # Null

(***************************************************************************)
(* The verifier on its own: verifySignature and verifyHMAC (verify.js)     *)
(* called on a parsed signature.                                           *)
(***************************************************************************)
S_pub == <<"p", "u", "b">>
S_dsa_sha1 == <<"d", "s", "a", "-", "s", "h", "a", "1">>

\* a public key in PEM: the text "pub-<type>"
PUB_rsa == Str(S_pub \o <<"-">> \o S_rsa)
PUB_dsa == Str(S_pub \o <<"-">> \o S_dsa)
PublicKeyObject_rsa == [type |-> "Key", keytype |-> S_rsa]

\* sshpk.parseKey(text): [err, key]
parseKey(pubkey) ==
  LET parts == split(pubkey.s, "-")
  IN IF Len(parts) = 2 /\ parts[1] = S_pub
     THEN [err |-> "", key |-> [type |-> "Key", keytype |-> parts[2]]]
     ELSE [err |-> KeyParseError, key |-> Undefined]

\* sshpk.Key.isKey(pubkey, [1, 1])
isKey(pubkey) == pubkey.type = "Key"

\* pubkey.createVerify(hash).update(data).verify(signature, "base64")
PublicKeyVerify(pubkey, hashAlgorithm, data, signature) ==
  signature = Base64Encode(ToString(<<"sig", pubkey.keytype, hashAlgorithm, data>>))

\* lines 27-39
verifySignature(parsedSignature, pubkey) ==
  LET p == IF IsString(pubkey) THEN parseKey(pubkey) ELSE [err |-> "", key |-> pubkey]
  IN IF p.err # "" THEN Throw(p.err)
     ELSE IF ~isKey(p.key) THEN Throw(AssertionError)
     ELSE LET v == validateAlgorithm(parsedSignature.algorithm, Str(p.key.keytype))
          IN IF v.err # "" THEN Throw(v.err)
             ELSE IF v.alg[1] = Str(S_hmac) \/ v.alg[1] # Str(p.key.keytype)
                  THEN Return(FALSE)
             ELSE Return(PublicKeyVerify(p.key, v.alg[2].s, parsedSignature.signingString,
                                         parsedSignature.params.signature))

\* the signing strings and signatures a parsed signature of the model carries
VerifyMessages == {<<"m", "1">>, <<"m", "2">>}
VerifyAlgorithms ==
  {S_rsa_sha256, S_RSA_SHA512, S_hmac_sha256, S_HMAC_SHA1, S_dsa_sha1, S_hs2019, S_rsa_md5, S_rsa}
VerifySignatures ==
  {PrivateKeySign(KeyObject_rsa, S_sha256, <<"m", "1">>).text,
   Base64Encode(Hmac(toUpperCase(S_sha256), Secret_s, <<"m", "1">>)),
   <<"x">>}
VerifyKeys == {PUB_rsa, PUB_dsa, PublicKeyObject_rsa, Str(<<"j", "u", "n", "k">>), Undefined}

\* a parsed signature is at hand; nothing was verified yet
InitVerify ==
  /\ \E a \in VerifyAlgorithms, m \in VerifyMessages, s \in VerifySignatures :
       vr = [called |-> FALSE, fn |-> "none", secret |-> Undefined, result |-> NoResult,
             parsed |-> [algorithm |-> a, signingString |-> m, params |-> [signature |-> s]]]
  /\ request = IdleRequest
  /\ options = IdleOptions
  /\ clock = FirstClock
  /\ sr = IdleSr
  /\ fa = IdleFa
  /\ rs = IdleRs
  /\ io = IdleIo

\* verifySignature(parsedSignature, pubkey) is called
VerifySignatureCall ==
  /\ ~vr.called
  /\ \E pubkey \in VerifyKeys :
       vr' = [vr EXCEPT !.called = TRUE, !.fn = "verifySignature", !.secret = pubkey,
                        !.result = verifySignature(vr.parsed, pubkey)]
  /\ UNCHANGED <<request, options, clock, sr, fa, rs, io>>

\* verifyHMAC(parsedSignature, secret) is called
VerifyHMACCall ==
  /\ ~vr.called
  /\ \E secret \in VerifySecrets \cup {Undefined} :
       vr' = [vr EXCEPT !.called = TRUE, !.fn = "verifyHMAC", !.secret = secret,
                        !.result = verifyHMAC(vr.parsed, secret)]
  /\ UNCHANGED <<request, options, clock, sr, fa, rs, io>>

NextVerify ==
  \/ VerifySignatureCall
  \/ VerifyHMACCall

SpecVerify == InitVerify /\ [][NextVerify]_vars

\* the segments of the parsed algorithm "family-hash", lower-cased
ParsedSegments == split(toLowerCase(vr.parsed.algorithm), "-")

\* the parsed algorithm names a supported family and a supported hash
ParsedSupported ==
  /\ Len(ParsedSegments) = 2
  /\ ParsedSegments[1] \in PK_ALGOS \cup {S_hmac}
  /\ ParsedSegments[2] \in HASH_ALGOS

\* the type of the public key given to verifySignature
GivenKeyType == IF IsString(vr.secret) THEN parseKey(vr.secret).key.keytype ELSE vr.secret.keytype

\* C11: verifySignature returns false, and raises nothing, whenever the parsed
\* algorithm's family is hmac or differs from the type of the given public key;
\* verifyHMAC returns false, and raises nothing, whenever the family is not hmac.
C11_MismatchReturnsFalse ==
  vr.called /\ ParsedSupported =>
    /\ /\ vr.fn = "verifySignature"
       /\ vr.secret \in {PUB_rsa, PUB_dsa, PublicKeyObject_rsa}
       /\ ParsedSegments[1] = S_hmac \/ ParsedSegments[1] # GivenKeyType
       => vr.result = Return(FALSE)
    /\ vr.fn = "verifyHMAC" /\ IsString(vr.secret) /\ ParsedSegments[1] # S_hmac
       => vr.result = Return(FALSE)

(***************************************************************************)
(* Properties of the algorithm, header name, created and expires that      *)
(* signRequest emits.                                                      *)
(***************************************************************************)
\* the resolved pair <<keyType, hash>> is a concrete one, never the sentinel
ConcretePair ==
  /\ IsString(sr.alg[1]) /\ sr.alg[1].s \in PK_ALGOS \cup {S_hmac}
  /\ IsString(sr.alg[2]) /\ sr.alg[2].s \in HASH_ALGOS

\* C12: whenever options.hideAlgorithm is true and signRequest succeeds, for every
\* key family (asymmetric or hmac) and with or without options.algorithm, the
\* emitted algorithm parameter is "hs2019" while the signature is computed with
\* the resolved concrete key type and hash.
C12_HideAlgorithmEmitsHs2019 ==
  sr.pc = "returned" /\ sr.given.hideAlgorithm = Bool(TRUE) =>
    /\ GetParam(sr.params, "algorithm") = Str(S_hs2019)
    /\ ConcretePair
    /\ sr.signature = Signature(sr.alg, sr.key, sr.stringToSign).signature

\* the header name signRequest is asked to write: the option, or "Authorization"
ExpectedHeaderName ==
  IF IsString(sr.given.authorizationHeaderName) /\ sr.given.authorizationHeaderName.s # <<>>
  THEN sr.given.authorizationHeaderName.s
  ELSE S_Authorization

\* the text a header value begins with when it carries no scheme prefix
KeyIdField == ParamName["keyId"] \o <<"=">> \o Quoted(KeyId)

\* C13: signRequest writes the signature into the header named
\* options.authorizationHeaderName (default "Authorization"); the value starts with
\* "Signature " unless the name lower-cases to the bare-signature header name, in
\* which case it starts directly with keyId= .
C13_HeaderNameAndPrefix ==
  sr.pc = "returned" =>
    LET last == request.setCalls[Len(request.setCalls)]
    IN /\ last.name = ExpectedHeaderName
       /\ getHeader(request, ExpectedHeaderName) = last.value
       /\ IsString(last.value)
       /\ IF toLowerCase(ExpectedHeaderName) = S_signature
          THEN StartsWith(last.value.s, KeyIdField)
          ELSE StartsWith(last.value.s, S_Signature_ \o KeyIdField)

C13_Witness ==
  /\ sr.pc = "returned"
  /\ sr.given.authorizationHeaderName = Str(S_Signature)
  /\ StartsWith(request.setCalls[Len(request.setCalls)].value.s, KeyIdField)
  /\ Len(sr.lines) >= 1

\* whether text s contains text p
Contains(s, p) == \E k \in 1..(Len(s) - Len(p) + 1) : SubSeq(s, k, k + Len(p) - 1) = p

\* the header value signRequest wrote
EmittedValue == request.setCalls[Len(request.setCalls)].value.s

\* the unix seconds of the clock readings made while signRequest ran
SigningSeconds == {UnixSeconds(t) : t \in {u \in ClockMs : FirstClock <= u /\ u <= clock}}

\* the seconds added to the clock for expires: the option, or 60 when it is not given
ExpectedExpiresIn ==
  IF sr.given.expiresIn = Undefined THEN 60 ELSE sr.given.expiresIn.n

\* the parameter named param is emitted, unquoted, iff name is listed, and every
\* signed line of that name carries the parameter's integer
TimeParamMatchesLines(param, name) ==
  LET v == GetParam(sr.params, param)
      listed == \E k \in 1..Len(sr.names) : sr.names[k] = name
  IN /\ listed <=> v # Undefined
     /\ listed <=> Contains(EmittedValue, <<",">> \o ParamName[param] \o <<"=">>)
     /\ listed =>
          /\ IsNumber(v)
          /\ Contains(EmittedValue, <<",">> \o ParamName[param] \o <<"=">> \o Decimal(v.n) \o <<",">>)
          /\ \A k \in 1..Len(sr.names) :
               sr.names[k] = name => sr.lines[k] = name \o <<":", " ">> \o Decimal(v.n)

\* C14: the created (resp. expires) parameter is in the emitted header iff
\* "(created)" (resp. "(expires)") is listed; it is rendered unquoted and is the
\* integer of the signed line "(created): n" (resp. "(expires): n"); created is
\* the clock's unix seconds at signing and expires is those seconds plus
\* expiresIn, which is 60 only when the option is not given.
C14_CreatedExpiresMatchLines ==
  sr.pc = "returned" =>
    /\ TimeParamMatchesLines("created", S_created)
    /\ TimeParamMatchesLines("expires", S_expires)
    /\ GetParam(sr.params, "created") # Undefined =>
         GetParam(sr.params, "created").n \in SigningSeconds
    /\ GetParam(sr.params, "expires") # Undefined =>
         GetParam(sr.params, "expires").n - ExpectedExpiresIn \in SigningSeconds

(***************************************************************************)
(* The two backends of the incremental signer compared.                    *)
(***************************************************************************)
\* the header and value a recorded write call hands to writeHeader
WriteArguments(call) ==
  CASE call.op = "writeHeader" -> <<call.a, call.b>>
    [] call.op = "writeDateHeader" -> <<S_date, call.b>>
    [] call.op = "writeTarget" -> <<S_request_target, toLowerCase(call.a) \o <<SP>> \o call.b>>

\* the object obj after the write calls, made in order
RECURSIVE Replay(_, _)
Replay(obj, calls) ==
  IF calls = <<>> THEN obj
  ELSE LET w == WriteArguments(Head(calls))
       IN Replay(writeHeader(obj, w[1], w[2]).rs, Tail(calls))

\* a fresh signer of each backend
KeyBacked ==
  RequestSigner([sign |-> Undefined, algorithm |-> Str(S_hmac_sha256), key |-> Secret_s,
                 keyId |-> Str(S_foo)]).rs
CallbackBacked ==
  RequestSigner([sign |-> Bool(TRUE), algorithm |-> Undefined, key |-> Undefined,
                 keyId |-> Undefined]).rs

\* the signing string a backend holds: the chunks fed to the digest, concatenated,
\* or what sign hands to the sign function
BackendData(obj) == IF obj.kind = "signFunc" THEN SignFuncData(obj) ELSE obj.rs_signer.data

AllWritesReturned == \A k \in 1..Len(io.writes) : io.writes[k].threw = ""

\* C15: for every sequence of n >= 1 write calls, the chunks fed to the digest of
\* a key-backed signer, concatenated, equal the string a callback-backed signer
\* hands to its sign function for the same sequence, and that string neither
\* starts nor ends with the separator.
C15_BackendsSameSigningString ==
  /\ io.pc = "ready" /\ Len(io.writes) >= 1 /\ AllWritesReturned =>
       LET other == IF rs.kind = "signFunc" THEN KeyBacked ELSE CallbackBacked
           data == BackendData(rs)
       IN /\ data = BackendData(Replay(other, io.writes))
          /\ Head(data) # NL
          /\ data[Len(data)] # NL
          /\ Count(data, NL) = Len(io.writes) - 1
  /\ io.signFunc # NoCall =>
       io.signFunc.data = BackendData(Replay(KeyBacked, SubSeq(io.writes, 1, io.signFunc.nwrites)))

C15_Witness ==
  /\ io.pc = "ready"
  /\ rs.kind = "signer"
  /\ Len(io.writes) = 2
  /\ AllWritesReturned
  /\ io.writes[2].op = "writeHeader"
  /\ Count(rs.rs_signer.data, NL) = 1

\* C16: on a key-backed signer the streaming digest is finalized exactly once:
\* after the first sign call that finds a header written the signer is in a
\* terminal state, in which the digest is neither finalized a second time nor
\* fed another line.
C16_DigestFinalizedOnce ==
  rs.kind = "signer" =>
    /\ rs.rs_signer.finalizations <= 1
    /\ rs.rs_signer.finalized => rs.rs_signer.data = rs.rs_signer.signed
    /\ io.lastSign # NoCall /\ io.lastSign.n >= 1 =>
         rs.rs_signer.finalized /\ rs.rs_signer.finalizations = 1

\* the argument of a completion is an object with string keyId, algorithm, signature
WellFormedSig(sig) ==
  /\ sig.type = "object"
  /\ IsString(sig.keyId) /\ IsString(sig.algorithm) /\ IsString(sig.signature)

\* C17: on a callback-backed signer cb is never invoked before the sign function
\* invokes its completion, and every completion invocation invokes cb exactly
\* once, with an error or with a header value and never both; a completion
\* error, a malformed result or an algorithm validateAlgorithm rejects arrives
\* at cb as the error.
C17_CompletionInvokesCbOnce ==
  rs.kind = "signFunc" =>
    /\ io.cbCount = io.nCompletions
    /\ io.signFunc = NoCall => io.cbCount = 0 /\ io.lastCompletion = NoCall
    /\ io.lastSign # NoCall /\ io.lastSign.n >= 1 =>
         io.lastSign.cb = <<>> /\ io.lastSign.threw = ""
    /\ io.lastCompletion # NoCall =>
         LET arg == io.lastCompletion.arg
             cb == io.lastCompletion.cb
         IN /\ Len(cb) = 1
            /\ cb[1].err = Null <=> cb[1].authz # Undefined
            /\ Truthy(arg.err) => cb[1].err = arg.err
            /\ ~Truthy(arg.err) /\ ~WellFormedSig(arg.sig) =>
                 cb[1].err = ErrorObject(AssertionError)
            /\ ~Truthy(arg.err) /\ WellFormedSig(arg.sig)
                 /\ validateAlgorithm(arg.sig.algorithm.s, Undefined).err # "" =>
                 cb[1].err = ErrorObject(InvalidAlgorithmError)

C17_Witness ==
  /\ rs.kind = "signFunc"
  /\ io.nCompletions = 2
  /\ io.cbCount = 2
  /\ io.lastCompletion.arg.sig # Undefined
  /\ io.lastCompletion.arg.sig.algorithm = Str(S_rsa_md5)
  /\ io.lastCompletion.cb[1].err = ErrorObject(InvalidAlgorithmError)

\* every signed line of the given name carries the value of the emitted parameter
LineCarriesParam(name, param) ==
  \A k \in 1..Len(sr.names) :
    sr.names[k] = name =>
      LET v == GetParam(sr.params, param)
      IN /\ IsString(v)
         /\ sr.lines[k] = name \o <<":", " ">> \o v.s
         /\ Contains(EmittedValue, ParamName[param] \o <<"=">> \o Quoted(v.s) \o <<",">>)

\* C18: whenever signRequest succeeds, the value signed in each "(algorithm): ..."
\* line is the algorithm parameter emitted in the header, whether the algorithm
\* was given or defaulted, for every key family and hideAlgorithm setting, and
\* each "(keyid): ..." line carries the emitted keyId.
C18_AlgorithmAndKeyIdLinesMatchHeader ==
  sr.pc = "returned" =>
    /\ LineCarriesParam(S_algorithm, "algorithm")
    /\ LineCarriesParam(S_keyid, "keyId")

C18_Witness ==
  /\ sr.pc = "returned"
  /\ sr.given.hideAlgorithm = Bool(TRUE)
  /\ sr.given.algorithm = Undefined
  /\ sr.names = <<S_algorithm, S_keyid>>
  /\ sr.lines[1] = S_algorithm \o <<":", " ">> \o S_hs2019

=============================================================================
